---- MODULE Spec2Model ----
(***************************************************************************)
(* Model of the multi-source consensus ingestion pipeline of polla_app     *)
(* (src/polla_app/pipeline.py): run_pipeline, its source loading loop,     *)
(* _build_consensus, _compare_with_previous, the pozos-only and            *)
(* openloto-only paths and the artifacts the run writes.                   *)
(***************************************************************************)
EXTENDS Integers, Sequences, FiniteSets, TLC

(***************************************************************************)
(* Encodings.  Python None in an int-or-None field (sorteo, fecha) is      *)
(* NONE; a fecha is an ISO date string, modelled by the integer yyyymmdd,  *)
(* whose numeric order is the lexicographic order of the ISO strings.      *)
(***************************************************************************)
NONE == -1

\* Bounds of the model.
MaxRuns == 2
MaxRetries == 7

\* Category names in the order Python's sorted() gives them ("" < "Loto" < "Terna").
SortedCats == <<"", "Loto", "Terna">>

CatRank(c) == CHOOSE i \in 1..Len(SortedCats) : SortedCats[i] = c

\* The (premio_clp, ganadores) pair of a prize row.
V1 == <<100, 2>>
V2 == <<50, 0>>
V3 == <<100, 0>>

Item(c, v) == [categoria |-> c, premio_clp |-> v[1], ganadores |-> v[2]]

\* ------------------------------------------------------------------------
\* Sequence helpers
\* ------------------------------------------------------------------------
Range(s) == {s[i] : i \in 1..Len(s)}

RECURSIVE SeqOfSet(_)
\* the categories of a set in sorted() order
SeqOfSet(S) ==
    IF S = {} THEN <<>>
    ELSE LET c == CHOOSE x \in S : \A y \in S : CatRank(x) <= CatRank(y)
         IN <<c>> \o SeqOfSet(S \ {c})

\* A variant of _category_map that keeps the items with an empty categoria.
_category_map_keep_empty(premios) ==
    LET keys == {premios[i].categoria : i \in 1..Len(premios)}
        last(c) == CHOOSE i \in 1..Len(premios) :
                       /\ premios[i].categoria = c
                       /\ \A j \in 1..Len(premios) : premios[j].categoria = c => j <= i
    IN [c \in keys |-> <<premios[last(c)].premio_clp, premios[last(c)].ganadores>>]

\* ------------------------------------------------------------------------
\* _category_map: the categoria -> (premio_clp, ganadores) dict of a record.
\* Items with an empty categoria are dropped; a later item with the same
\* categoria overwrites an earlier one.
\* ------------------------------------------------------------------------
_category_map(premios) ==
    LET keys == {premios[i].categoria : i \in 1..Len(premios)} \ {""}
        last(c) == CHOOSE i \in 1..Len(premios) :
                       /\ premios[i].categoria = c
                       /\ \A j \in 1..Len(premios) : premios[j].categoria = c => j <= i
    IN [c \in keys |-> <<premios[last(c)].premio_clp, premios[last(c)].ganadores>>]

\* ------------------------------------------------------------------------
\* _build_consensus.  records is the ordered dict source -> category map,
\* a sequence of [name, data] in the dict's iteration order.
\* ------------------------------------------------------------------------
NamesOf(records) == [i \in 1..Len(records) |-> records[i].name]

\* values: source -> (premio_clp, ganadores) for the sources that report the
\* category, in the dict's iteration order
ValuesOf(records, categoria) ==
    LET rep == SelectSeq(records, LAMBDA r : categoria \in DOMAIN r.data)
    IN [i \in 1..Len(rep) |-> [source |-> rep[i].name, val |-> rep[i].data[categoria]]]

\* A variant of ValueCount that counts every reporting source.
ValueCountAll(values, v) == Len(values)

ValueCount(values, v) == Cardinality({i \in 1..Len(values) : values[i].val = v})

\* A variant of MostCommon that takes the value inserted last, whatever its count.
MostCommonLast(values) ==
    [majority_value |-> values[Len(values)].val,
     count |-> ValueCount(values, values[Len(values)].val)]

\* Counter(values.values()).most_common(1)[0]: the value of highest count;
\* among equal counts, the one inserted first (first in iteration order).
MostCommon(values) ==
    LET i == CHOOSE i \in 1..Len(values) :
                 /\ \A j \in 1..Len(values) :
                       ValueCount(values, values[j].val) <= ValueCount(values, values[i].val)
                 /\ \A j \in 1..(i - 1) :
                       ValueCount(values, values[j].val) < ValueCount(values, values[i].val)
    IN [majority_value |-> values[i].val, count |-> ValueCount(values, values[i].val)]

\* lines 228-232: the sources whose value differs from the majority value
Disagreeing(values, majority_value) ==
    LET differ == {i \in 1..Len(values) : values[i].val # majority_value}
        at(s) == CHOOSE i \in differ : values[i].source = s
    IN [s \in {values[i].source : i \in differ} |->
           [premio_clp |-> values[at(s)].val[1], ganadores |-> values[at(s)].val[2]]]

\* A variant of MissingSources that lists only the sources reporting nothing at all.
MissingSourcesSilentOnly(records, categoria) ==
    NamesOf(SelectSeq(records, LAMBDA r : DOMAIN r.data = {}))

\* line 233: the sources that do not report the category, in iteration order
MissingSources(records, categoria) ==
    NamesOf(SelectSeq(records, LAMBDA r : categoria \notin DOMAIN r.data))

\* A variant of IsMismatched that looks at the missing sources only.
IsMismatchedMissingOnly(disagreeing, missing_sources) == missing_sources # <<>>

\* line 235
IsMismatched(disagreeing, missing_sources) ==
    DOMAIN disagreeing # {} \/ missing_sources # <<>>

\* lines 208-247: the consensus row of a category and its mismatch entry
CategoryConsensus(records, categoria) ==
    LET values == ValuesOf(records, categoria)
        mc == MostCommon(values)
        disagreeing == Disagreeing(values, mc.majority_value)
        missing_sources == MissingSources(records, categoria)
    IN [row |-> [categoria |-> categoria,
                 premio_clp |-> mc.majority_value[1],
                 ganadores |-> mc.majority_value[2]],
        mismatched |-> IsMismatched(disagreeing, missing_sources),
        mismatch |-> [categoria |-> categoria,
                      consensus |-> [premio_clp |-> mc.majority_value[1],
                                     ganadores |-> mc.majority_value[2],
                                     support |-> mc.count],
                      disagreeing |-> disagreeing,
                      missing_sources |-> missing_sources]]

_build_consensus(records) ==
    LET categories == UNION {DOMAIN records[i].data : i \in 1..Len(records)}
        cats == SeqOfSet(categories)
        per == [i \in 1..Len(cats) |-> CategoryConsensus(records, cats[i])]
        bad == SelectSeq(per, LAMBDA e : e.mismatched)
        consensus_rows == [i \in 1..Len(per) |-> per[i].row]
        mismatches == [i \in 1..Len(bad) |-> bad[i].mismatch]
    IN [consensus_rows |-> consensus_rows,
        mismatches |-> mismatches,
        mismatch_ratio |-> IF Len(consensus_rows) > 0
                           THEN <<Len(mismatches), Len(consensus_rows)>>
                           ELSE <<0, 1>>]

\* ------------------------------------------------------------------------
\* Rationals: mismatch_ratio and mismatch_threshold are floats in the code;
\* a ratio of two small integers is kept as the pair <<numerator,
\* denominator>> and compared by cross-multiplication.
\* ------------------------------------------------------------------------
RatLE(a, b) == a[1] * b[2] <= b[1] * a[2]

RatEq(a, b) == a[1] * b[2] = b[1] * a[2]

\* ------------------------------------------------------------------------
\* _compare_with_previous and its helper _normalise_prizes
\* ------------------------------------------------------------------------
RowLess(a, b) ==
    \/ CatRank(a[1]) < CatRank(b[1])
    \/ a[1] = b[1] /\ a[2] < b[2]
    \/ a[1] = b[1] /\ a[2] = b[2] /\ a[3] < b[3]

RECURSIVE SortedRows(_)
\* sorted(rows) of (categoria, premio_clp, ganadores) tuples
SortedRows(rows) ==
    IF rows = <<>> THEN <<>>
    ELSE LET i == CHOOSE i \in 1..Len(rows) :
                      /\ \A j \in 1..Len(rows) : ~RowLess(rows[j], rows[i])
                      /\ \A j \in 1..(i - 1) : rows[j] # rows[i]
             rest == [k \in 1..(Len(rows) - 1) |-> IF k < i THEN rows[k] ELSE rows[k + 1]]
         IN <<rows[i]>> \o SortedRows(rest)

\* A variant of _normalise_prizes that keeps the rows in the order listed.
_normalise_prizes_unsorted(record) ==
    [i \in 1..Len(record.premios) |->
        <<record.premios[i].categoria,
          record.premios[i].premio_clp,
          record.premios[i].ganadores>>]

_normalise_prizes(record) ==
    SortedRows([i \in 1..Len(record.premios) |->
                  <<record.premios[i].categoria,
                    record.premios[i].premio_clp,
                    record.premios[i].ganadores>>])

\* True if prizes changed compared to the last known record.
_compare_with_previous(current, previous) ==
    IF current.sorteo = NONE THEN TRUE
    ELSE ~\E i \in 1..Len(previous) :
             /\ previous[i].sorteo = current.sorteo
             /\ _normalise_prizes(previous[i]) = _normalise_prizes(current)

\* ------------------------------------------------------------------------
\* Files.  A JSON-lines file is [exists, rows]; _write_jsonl replaces the
\* content, _load_previous_state reads [] from a missing file.
\* ------------------------------------------------------------------------
NoFile == [exists |-> FALSE, rows |-> <<>>]

\* A variant of _write_jsonl that writes every row twice.
_write_jsonl_twice(rows) == [exists |-> TRUE, rows |-> rows \o rows]

\* path.open("w"): the rows replace the content
_write_jsonl(rows) == [exists |-> TRUE, rows |-> rows]

_load_previous_state(file) == IF file.exists THEN file.rows ELSE <<>>

\* ------------------------------------------------------------------------
\* Source names and _normalise_sources
\* ------------------------------------------------------------------------
\* str.lower() on the names the model requests
Lower(s) == IF s = "T13" THEN "t13" ELSE s

\* sorted() order of the loader names
SortedLoaderNames == <<"24h", "t13">>

\* A variant of Dedup that keeps every occurrence of a name.
DedupKeepAll(requested, acc) == acc \o [i \in 1..Len(requested) |-> Lower(requested[i])]

RECURSIVE Dedup(_, _)
\* the loop of _normalise_sources: lowercase, keep the first occurrence
Dedup(requested, acc) ==
    IF requested = <<>> THEN acc
    ELSE LET key == Lower(Head(requested))
         IN Dedup(Tail(requested),
                  IF key \in Range(acc) THEN acc ELSE Append(acc, key))

\* [ok, value]: ok = FALSE stands for the ValueError of an unsupported name
_normalise_sources(requested, loaders) ==
    LET lowered == {Lower(requested[i]) : i \in 1..Len(requested)}
    IN IF "pozos" \in lowered THEN [ok |-> TRUE, value |-> <<"pozos">>]
       ELSE IF "openloto" \in lowered THEN [ok |-> TRUE, value |-> <<"openloto">>]
       ELSE IF "all" \in lowered
            THEN [ok |-> TRUE,
                  value |-> SelectSeq(SortedLoaderNames, LAMBDA n : n \in loaders)]
       ELSE IF \E i \in 1..Len(requested) : Lower(requested[i]) \notin loaders
            THEN [ok |-> FALSE, value |-> <<>>]
       ELSE [ok |-> TRUE, value |-> Dedup(requested, <<>>)]

\* ------------------------------------------------------------------------
\* Pozos: _collect_pozos and _merge_pozos
\* ------------------------------------------------------------------------
\* str(categoria).lower().startswith("total")
IsTotal(categoria) == categoria = "Total estimado"

\* A fetcher outcome is [raised, payload]; _collect_pozos keeps, in the order
\* (resultadosloto, openloto), the payloads of the fetchers that did not
\* raise and returned non-empty montos.
_collect_pozos(outcomes) ==
    LET kept == SelectSeq(outcomes, LAMBDA o : ~o.raised /\ DOMAIN o.payload.montos # {})
    IN [i \in 1..Len(kept) |-> kept[i].payload]

\* merged.setdefault(categoria, monto): the first payload that has the
\* category wins; "total" categories are skipped.
_merge_pozos(collected) ==
    LET cats == UNION {{c \in DOMAIN collected[i].montos : ~IsTotal(c)} : i \in 1..Len(collected)}
        first(c) == CHOOSE i \in 1..Len(collected) :
                        /\ c \in DOMAIN collected[i].montos
                        /\ \A j \in 1..(i - 1) : c \notin DOMAIN collected[j].montos
    IN [c \in cats |-> collected[first(c)].montos[c]]

\* str(status).startswith("publish") over the statuses the pipeline produces
Statuses == {"publish", "publish_with_warnings", "publish_forced", "quarantine", "skip"}

\* A variant of StartsWithPublish that compares the whole status.
StatusIsPublish(status) == status = "publish"

\* str(decision_payload.get("status", "")).startswith("publish")
StartsWithPublish(status) == status \in {"publish", "publish_with_warnings", "publish_forced"}

\* ------------------------------------------------------------------------
\* Inputs of the model
\* ------------------------------------------------------------------------
\* The loader registry SOURCE_LOADERS is empty at import; the callers that
\* exercise the consensus path register loaders under these names.
LoaderNames == {"24h", "t13"}

Url(s) == IF s = "t13" THEN "https://example.test/t13" ELSE "https://example.test/24h"

NoUrl == "None"

\* What a loader can return: the record of a parsed page.
PremiosA == <<Item("Loto", V1), Item("Terna", V2)>>
PremiosB == <<Item("Loto", V3), Item("Terna", V2)>>
PremiosN == <<Item("", V1)>>

LoaderRecords ==
    { [sorteo |-> 5198, fecha |-> 20241201, premios |-> PremiosA],
      [sorteo |-> 5198, fecha |-> 20241201, premios |-> PremiosB],
      [sorteo |-> NONE, fecha |-> NONE, premios |-> PremiosA],
      [sorteo |-> NONE, fecha |-> NONE, premios |-> PremiosN] }

\* A loader call raises or returns a record.
LoaderOutcomes ==
    {[raised |-> TRUE, record |-> [sorteo |-> NONE, fecha |-> NONE, premios |-> <<>>]]}
    \cup {[raised |-> FALSE, record |-> r] : r \in LoaderRecords}

\* What the pozo fetchers can return (_fetch_pozos): fuente, montos, sorteo, fecha.
RESULTADOS_URL == "https://resultadoslotochile.com/pozo-para-el-proximo-sorteo/"
OPENLOTO_URL == "https://www.openloto.cl/pozo-del-loto.html"

Payload(fuente, montos, sorteo, fecha) ==
    [fuente |-> fuente, montos |-> montos, sorteo |-> sorteo, fecha |-> fecha]

NoMontos == [c \in {} |-> 0]

Raised(fuente) == [raised |-> TRUE, payload |-> Payload(fuente, NoMontos, NONE, NONE)]

Returned(payload) == [raised |-> FALSE, payload |-> payload]

ResultadosOutcomes ==
    { Raised(RESULTADOS_URL),
      Returned(Payload(RESULTADOS_URL, NoMontos, NONE, NONE)),
      Returned(Payload(RESULTADOS_URL, [c \in {"Loto"} |-> 101], 7001, 20251001)),
      Returned(Payload(RESULTADOS_URL, [c \in {"Loto"} |-> 102], 7001, 20251001)),
      Returned(Payload(RESULTADOS_URL, [c \in {"Loto"} |-> 101], 7001, 20251003)),
      Returned(Payload(RESULTADOS_URL, [c \in {"Loto"} |-> 101], 7002, 20251001)) }

OpenlotoOutcomes ==
    { Raised(OPENLOTO_URL),
      Returned(Payload(OPENLOTO_URL, NoMontos, NONE, NONE)),
      Returned(Payload(OPENLOTO_URL, [c \in {"Recargado"} |-> 202], 7001, 20251001)),
      Returned(Payload(OPENLOTO_URL, [c \in {"Loto"} |-> 999], NONE, NONE)) }

\* The arguments of run_pipeline (the paths and the timeout, which only
\* travel through to the loaders and the artifacts, are left out).
Args(sources, overrides, retries, fail_fast, threshold, include_pozos, force_publish) ==
    [sources |-> sources, source_overrides |-> overrides, retries |-> retries,
     fail_fast |-> fail_fast, mismatch_threshold |-> threshold,
     include_pozos |-> include_pozos, force_publish |-> force_publish]

Overrides(S) == [s \in S |-> Url(s)]

\* mismatch_threshold >= 0 and retries >= 1 (src/polla_app/__main__.py:177-182)
Thresholds == {<<0, 1>>, <<1, 2>>}

\* A deployment: the registered loaders and the arguments the job is run with.
Deployments ==
    \* consensus over two sources, both with an override URL
    { [loaders |-> LoaderNames, args |-> Args(src, Overrides(LoaderNames), 1, ff, th, FALSE, fp)] :
        src \in {<<"t13", "24h">>, <<"24h", "t13">>, <<"all">>},
        ff \in BOOLEAN, th \in Thresholds, fp \in BOOLEAN }
    \cup
    \* sources without an override URL
    { [loaders |-> LoaderNames, args |-> Args(src, Overrides(S), 1, ff, <<1, 2>>, FALSE, FALSE)] :
        src \in {<<"t13", "24h">>, <<"24h", "t13">>},
        S \in (SUBSET LoaderNames) \ {LoaderNames}, ff \in BOOLEAN }
    \cup
    \* one source, retried
    { [loaders |-> LoaderNames, args |-> Args(<<"T13", "t13">>, Overrides({"t13"}), n, ff, <<1, 2>>, FALSE, FALSE)] :
        n \in 1..MaxRetries, ff \in BOOLEAN }
    \cup
    \* one source, enriched with the pozos
    { [loaders |-> LoaderNames, args |-> Args(<<"t13">>, Overrides({"t13"}), 1, FALSE, <<1, 2>>, TRUE, FALSE)] }
    \cup
    \* pozos-only and openloto-only
    { [loaders |-> L, args |-> Args(src, Overrides({}), 1, FALSE, <<1, 2>>, TRUE, fp)] :
        L \in {{}, LoaderNames},
        src \in {<<"pozos">>, <<"bogus", "pozos">>, <<"openloto">>}, fp \in BOOLEAN }
    \cup
    \* unsupported names, the empty request and the empty registry
    { [loaders |-> L, args |-> Args(src, Overrides({}), 1, ff, <<1, 2>>, FALSE, FALSE)] :
        L \in {{}, LoaderNames},
        src \in {<<"bogus">>, <<"t13", "bogus">>, <<>>, <<"all">>, <<"t13">>}, ff \in BOOLEAN }

\* ------------------------------------------------------------------------
\* Artifacts and log events
\* ------------------------------------------------------------------------
Event(event, rid, source, n) ==
    [event |-> event, run_id |-> rid, source |-> source, attempt |-> n, timestamp |-> TRUE]

Record(sorteo, fecha, fuente, premios, pozos, rid) ==
    [sorteo |-> sorteo, fecha |-> fecha, fuente |-> fuente, premios |-> premios,
     pozos_proximo |-> pozos, run_id |-> rid]

NoRecord == Record(NONE, NONE, "", <<>>, NoMontos, NONE)

\* decision: mismatch_ratio is present only when has_ratio
Decision(status, total, mismatched, has_ratio, ratio) ==
    [status |-> status, total_categories |-> total, mismatched_categories |-> mismatched,
     has_ratio |-> has_ratio, mismatch_ratio |-> ratio]

NoDecision == Decision("none", NONE, NONE, FALSE, <<0, 1>>)

Summary(rid, decision, changed, publish) ==
    [exists |-> TRUE, pending |-> FALSE, run_id |-> rid, decision |-> decision,
     prizes_changed |-> changed, publish |-> publish]

NoSummary ==
    [exists |-> FALSE, pending |-> FALSE, run_id |-> NONE, decision |-> NoDecision,
     prizes_changed |-> FALSE, publish |-> FALSE]

Report(rid, srcs, last_draw, decision, changed, mismatches, loaded, fails) ==
    [exists |-> TRUE, run_id |-> rid, run_sources |-> srcs, last_draw |-> last_draw,
     decision |-> decision, prizes_changed |-> changed, mismatches |-> mismatches,
     sources |-> loaded, failures |-> fails]

NoReport ==
    [exists |-> FALSE, run_id |-> NONE, run_sources |-> <<>>,
     last_draw |-> [sorteo |-> NONE, fecha |-> NONE], decision |-> NoDecision,
     prizes_changed |-> FALSE, mismatches |-> <<>>, sources |-> {}, failures |-> <<>>]

Failure(source, url, error) == [source |-> source, url |-> url, error |-> error]

\* ------------------------------------------------------------------------
\* State
\* ------------------------------------------------------------------------
VARIABLES
    SOURCE_LOADERS,     \* names with a registered loader
    args,               \* the arguments run_pipeline is called with
    pc,                 \* where run_pipeline stands: "idle" between runs
    runs,               \* number of runs started
    next_uuid,          \* uuid.uuid4(): the next fresh identifier
    run_id,             \* run_id of the current run
    requested_sources,  \* _normalise_sources(sources)
    idx,                \* position of "for source_name in requested_sources"
    candidate_urls,     \* candidate URLs of the current source
    url_idx,            \* position of "for url in candidate_urls"
    attempt,            \* failed attempts on the current URL
    results,            \* SourceResult list
    failures,           \* failures list
    log,                \* the structured event log file (append-only NDJSON)
    calls,              \* calls of the current run to loaders, fetchers and time.sleep
    normalized,         \* file at normalized_path
    state,              \* file at state_path
    comparison_report,  \* file at comparison_report_path
    summary_file,       \* file at summary_path
    raw_dir,            \* names of the files in raw_dir
    hist,               \* one entry per finished run: what it returned or raised
    cb_results,         \* consensus builder alone: the loaded results
    cb_op,              \* consensus builder alone: what was applied last
    cb_out,             \* consensus builder alone: its output
    cb_base,            \* consensus builder alone: input and output before cb_op
    cmp_current,        \* _compare_with_previous alone: the current record
    cmp_previous,       \* _compare_with_previous alone: the previous records
    cmp_op,             \* _compare_with_previous alone: what was applied last
    cmp_out,            \* _compare_with_previous alone: its result
    pub_op,             \* publish_to_google_sheets: "none" until it has been called
    pub_args,           \* publish_to_google_sheets: the arguments of the call
    pub_out,            \* publish_to_google_sheets: what it returned or raised
    canonical_ws,       \* the canonical worksheet
    discrepancy_ws      \* the discrepancy worksheet

pipeline_vars ==
    <<SOURCE_LOADERS, args, pc, runs, next_uuid, run_id, requested_sources, idx,
      candidate_urls, url_idx, attempt, results, failures, log, calls, normalized,
      state, comparison_report, summary_file, raw_dir, hist>>

cb_vars == <<cb_results, cb_op, cb_out, cb_base>>

cmp_vars == <<cmp_current, cmp_previous, cmp_op, cmp_out>>

pub_vars == <<pub_op, pub_args, pub_out, canonical_ws, discrepancy_ws>>

vars == <<pipeline_vars, cb_vars, cmp_vars, pub_vars>>

\* category_views = {item.name: _category_map(item.record) for item in results}
category_views(res) ==
    [i \in 1..Len(res) |-> [name |-> res[i].name, data |-> _category_map(res[i].record.premios)]]

SourceResult(name, url, record) == [name |-> name, url |-> url, record |-> record]

PipelineStart(d) ==
    /\ SOURCE_LOADERS = d.loaders
    /\ args = d.args
    /\ pc = "idle"
    /\ runs = 0
    /\ next_uuid = 1
    /\ run_id = NONE
    /\ requested_sources = <<>>
    /\ idx = 1
    /\ candidate_urls = <<>>
    /\ url_idx = 1
    /\ attempt = 0
    /\ results = <<>>
    /\ failures = <<>>
    /\ log = <<>>
    /\ calls = <<>>
    /\ normalized = NoFile
    /\ state = NoFile
    /\ comparison_report = NoReport
    /\ summary_file = NoSummary
    /\ raw_dir = {}
    /\ hist = <<>>

CbIdle ==
    /\ cb_results = <<>>
    /\ cb_op = "none"
    /\ cb_out = _build_consensus(<<>>)
    /\ cb_base = [results |-> <<>>, out |-> _build_consensus(<<>>)]

CmpIdle ==
    /\ cmp_current = [sorteo |-> NONE, premios |-> <<>>]
    /\ cmp_previous = <<>>
    /\ cmp_op = "none"
    /\ cmp_out = TRUE

\* a worksheet: whether clear() and update() were called on it, and its content
Worksheet(touched, header, rows) == [touched |-> touched, header |-> header, rows |-> rows]

NoResult == [updated_rows |-> 0, discrepancy_rows |-> 0, status |-> "", publish_allowed |-> FALSE]

PubIdle ==
    /\ pub_op = "none"
    /\ pub_args = [with_summary |-> FALSE, dry_run |-> FALSE, force_publish |-> FALSE,
                   allow_quarantine |-> FALSE, spreadsheet_id |-> FALSE]
    /\ pub_out = [raised |-> FALSE, exc |-> "", result |-> NoResult]
    /\ canonical_ws = Worksheet(FALSE, "", {})
    /\ discrepancy_ws = Worksheet(FALSE, "", <<>>)

Init == (\E d \in Deployments : PipelineStart(d)) /\ CbIdle /\ CmpIdle /\ PubIdle

\* ------------------------------------------------------------------------
\* How a run ends
\* ------------------------------------------------------------------------
Outcome(mode, returned, exc, summary, record, res, fails) ==
    [run_id |-> run_id, mode |-> mode, returned |-> returned, exc |-> exc,
     summary |-> summary, record |-> record, results |-> res, failures |-> fails,
     state_before |-> state]

\* an exception leaves run_pipeline: nothing more is written
Raise(mode, exc, res, fails) ==
    /\ pc' = "idle"
    /\ hist' = Append(hist, Outcome(mode, FALSE, exc, NoSummary, NoRecord, res, fails))

Return(mode, summary, record, res, fails) ==
    /\ pc' = "idle"
    /\ hist' = Append(hist, Outcome(mode, TRUE, "", summary, record, res, fails))

Files == <<normalized, state, comparison_report, summary_file, raw_dir>>

Loop == <<requested_sources, idx, candidate_urls, url_idx, attempt, results, failures>>

\* ------------------------------------------------------------------------
\* run_pipeline, lines 378-384: open the log, pipeline_start, normalise
\* ------------------------------------------------------------------------
\* A variant of _init_log_stream that opens the log for writing.
_init_log_stream_truncating(content) == <<>>

\* log_path.open("a"): what the file holds stays, _emit writes after it
_init_log_stream(content) == content

StartRunUpTo(max_runs) ==
    /\ pc = "idle"
    /\ runs < max_runs
    /\ runs' = runs + 1
    /\ run_id' = next_uuid
    /\ next_uuid' = next_uuid + 1
    /\ log' = Append(_init_log_stream(log), Event("pipeline_start", next_uuid, "", 0))
    /\ calls' = <<>>
    /\ idx' = 1
    /\ candidate_urls' = <<>>
    /\ url_idx' = 1
    /\ attempt' = 0
    /\ results' = <<>>
    /\ failures' = <<>>
    /\ LET n == _normalise_sources(args.sources, SOURCE_LOADERS)
       IN IF ~n.ok
          THEN /\ requested_sources' = <<>>
               /\ pc' = "idle"
               /\ hist' = Append(hist,
                      [run_id |-> next_uuid, mode |-> "none", returned |-> FALSE,
                       exc |-> "ValueError", summary |-> NoSummary, record |-> NoRecord,
                       results |-> <<>>, failures |-> <<>>, state_before |-> state])
          ELSE /\ requested_sources' = n.value
               /\ pc' = IF n.value = <<"pozos">> THEN "pozos_only"
                        ELSE IF n.value = <<"openloto">> THEN "openloto_only"
                        ELSE "load_sources"
               /\ hist' = hist
    /\ UNCHANGED <<SOURCE_LOADERS, args, Files, cb_vars, cmp_vars, pub_vars>>

StartRun == StartRunUpTo(MaxRuns)

\* A variant of AbortOnFailure under which a failed source never aborts the run.
NeverAbortOnFailure(fail_fast) == FALSE

\* lines 521-522 and 590-591: "if fail_fast: raise RuntimeError(...)"
AbortOnFailure(fail_fast) == fail_fast

Call(op, source, url, secs) == [op |-> op, source |-> source, url |-> url, secs |-> secs]

FetcherCalls ==
    <<Call("fetcher", "get_pozo_resultadosloto", RESULTADOS_URL, 0),
      Call("fetcher", "get_pozo_openloto", OPENLOTO_URL, 0)>>

\* A variant of PozosUnchanged that matches the previous record on sorteo alone.
PozosUnchangedIgnoringFecha(previous, sorteo, fecha, merged) ==
    LET same == {i \in 1..Len(previous) : previous[i].sorteo = sorteo}
    IN /\ same # {}
       /\ previous[CHOOSE i \in same : \A j \in same : i <= j].pozos_proximo = merged

\* ------------------------------------------------------------------------
\* Pozos-only path, lines 387-485
\* ------------------------------------------------------------------------
\* lines 410-417: the first previous record of the same sorteo and fecha
\* decides; unchanged iff its amounts equal the merged ones
PozosUnchanged(previous, sorteo, fecha, merged) ==
    LET same == {i \in 1..Len(previous) :
                    previous[i].sorteo = sorteo /\ previous[i].fecha = fecha}
    IN /\ same # {}
       /\ previous[CHOOSE i \in same : \A j \in same : i <= j].pozos_proximo = merged

\* A variant of PozosDecision in which force_publish forces every decision.
PozosDecisionForcedAlways(unchanged, force_publish) ==
    IF force_publish
    THEN [status |-> "publish_forced", publish |-> TRUE]
    ELSE [status |-> IF unchanged THEN "skip" ELSE "publish", publish |-> ~unchanged]

\* lines 423-427
PozosDecision(unchanged, force_publish) ==
    IF force_publish /\ unchanged
    THEN [status |-> "publish_forced", publish |-> TRUE]
    ELSE [status |-> IF unchanged THEN "skip" ELSE "publish", publish |-> ~unchanged]

\* A variant of PersistState that keeps the records of the earlier runs.
PersistStateAppending(rows) == [exists |-> TRUE, rows |-> state.rows \o rows]

\* A variant of PersistState that leaves the state file alone when the run has no record.
PersistStateUnlessEmpty(rows) == IF rows = <<>> THEN state ELSE _write_jsonl(rows)

\* _write_jsonl(state_path, ...): the state file is rewritten with the rows
\* just written to the normalized output, on every path
PersistState(rows) == _write_jsonl(rows)

RunPozosOnly(o1, o2) ==
    /\ pc = "pozos_only"
    /\ calls' = calls \o FetcherCalls
    /\ LET collected == _collect_pozos(<<o1, o2>>)
       IN IF collected = <<>>
          THEN /\ Raise("pozos", "RuntimeError", <<>>, <<>>)
               /\ UNCHANGED <<log, Files>>
          ELSE LET merged == _merge_pozos(collected)
                   primary == collected[1]
                   record == Record(primary.sorteo, primary.fecha, primary.fuente,
                                    <<>>, merged, NONE)
                   unchanged == PozosUnchanged(_load_previous_state(state),
                                               primary.sorteo, primary.fecha, merged)
                   d == PozosDecision(unchanged, args.force_publish)
                   decision == Decision(d.status, Cardinality(DOMAIN merged), 0, FALSE, <<0, 1>>)
                   summary == Summary(run_id, decision, ~unchanged, d.publish)
               IN /\ normalized' = _write_jsonl(<<record>>)
                  /\ state' = PersistState(<<record>>)
                  /\ comparison_report' =
                        Report(run_id, requested_sources,
                               [sorteo |-> primary.sorteo, fecha |-> primary.fecha],
                               decision, ~unchanged, <<>>, {"pozos"}, <<>>)
                  /\ log' = log \o <<Event("pozos_enriched", NONE, "", 0),
                                     Event("pipeline_complete", run_id, "", 0)>>
                  /\ summary_file' = summary
                  /\ raw_dir' = raw_dir
                  /\ Return("pozos", summary, record, <<>>, <<>>)
    /\ UNCHANGED <<SOURCE_LOADERS, args, runs, next_uuid, run_id, Loop, cb_vars, cmp_vars, pub_vars>>

\* ------------------------------------------------------------------------
\* _run_openloto_only, lines 60-162
\* ------------------------------------------------------------------------
RunOpenlotoOnly(o) ==
    /\ pc = "openloto_only"
    /\ calls' = Append(calls, Call("fetcher", "get_pozo_openloto", OPENLOTO_URL, 0))
    /\ IF o.raised \/ DOMAIN o.payload.montos = {}
       THEN /\ Raise("openloto", IF o.raised THEN "Exception" ELSE "RuntimeError", <<>>, <<>>)
            /\ UNCHANGED <<log, Files, next_uuid>>
       ELSE LET amounts == o.payload.montos
                record == Record(NONE, NONE, o.payload.fuente, <<>>, amounts, NONE)
                decision == Decision("publish", Cardinality(DOMAIN amounts), 0, FALSE, <<0, 1>>)
                summary == Summary(next_uuid, decision, TRUE, TRUE)
            IN /\ raw_dir' = raw_dir \cup {<<"openloto", "json">>}
               /\ normalized' = _write_jsonl(<<record>>)
               /\ state' = PersistState(<<record>>)
               /\ comparison_report' =
                     Report(NONE, <<"openloto">>, [sorteo |-> NONE, fecha |-> NONE],
                            decision, TRUE, <<>>, {"openloto"}, <<>>)
               /\ next_uuid' = next_uuid + 1
               /\ summary_file' = summary
               /\ log' = log \o <<Event("pozos_enriched", NONE, "", 0),
                                  Event("pipeline_complete", next_uuid, "", 0)>>
               /\ Return("openloto", summary, record, <<>>, <<>>)
    /\ UNCHANGED <<SOURCE_LOADERS, args, runs, run_id, Loop, cb_vars, cmp_vars, pub_vars>>

\* ------------------------------------------------------------------------
\* The source loop, lines 500-530: the candidate URLs of the next source
\* ------------------------------------------------------------------------
ResolveSource ==
    /\ pc = "load_sources"
    /\ idx <= Len(requested_sources)
    /\ LET source_name == requested_sources[idx]
       IN IF source_name \in DOMAIN args.source_overrides
          THEN /\ candidate_urls' = <<args.source_overrides[source_name]>>
               /\ url_idx' = 1
               /\ attempt' = 0
               /\ pc' = "loading"
               /\ UNCHANGED <<idx, failures, log, hist>>
          ELSE IF source_name = "24h"
          \* line 510 names source_24h, which the module never imports
          THEN /\ Raise("consensus", "NameError", results, failures)
               /\ UNCHANGED <<idx, candidate_urls, url_idx, attempt, failures, log>>
          ELSE /\ log' = Append(log, Event("source_missing_url", NONE, source_name, 0))
               /\ candidate_urls' = <<>>
               /\ IF AbortOnFailure(args.fail_fast)
                  THEN /\ Raise("consensus", "RuntimeError", results, failures)
                       /\ UNCHANGED <<idx, failures>>
                  ELSE /\ failures' = Append(failures,
                              Failure(source_name, NoUrl, "Source skipped: missing URL"))
                       /\ idx' = idx + 1
                       /\ UNCHANGED <<pc, hist>>
               /\ UNCHANGED <<url_idx, attempt>>
    /\ UNCHANGED <<SOURCE_LOADERS, args, runs, next_uuid, run_id, requested_sources,
                   results, calls, Files, cb_vars, cmp_vars, pub_vars>>

\* time.sleep(min(2 * attempt, 10))
SleepCap == 10

\* A variant of Backoff without the cap.
BackoffUncapped(n) == 2 * n

Backoff(n) == IF 2 * n < SleepCap THEN 2 * n ELSE SleepCap

\* ------------------------------------------------------------------------
\* Lines 532-591: one call of the loader on the current URL and what follows
\* it up to the next call
\* ------------------------------------------------------------------------
AttemptLoad(o) ==
    /\ pc = "loading"
    /\ LET source_name == requested_sources[idx]
           url == candidate_urls[url_idx]
           called == Append(calls, Call("loader", source_name, url, 0))
       IN IF o.raised
          THEN /\ log' = Append(log, Event("source_error", NONE, source_name, attempt + 1))
               /\ results' = results
               /\ IF attempt + 1 >= args.retries
                  THEN \* break: next candidate URL, or the source has failed
                       IF url_idx < Len(candidate_urls)
                       THEN /\ url_idx' = url_idx + 1
                            /\ attempt' = 0
                            /\ calls' = called
                            /\ UNCHANGED <<pc, idx, failures, hist>>
                       ELSE /\ failures' = Append(failures,
                                   Failure(source_name, candidate_urls[1],
                                           "All candidate URLs failed"))
                            /\ calls' = called
                            /\ attempt' = attempt + 1
                            /\ url_idx' = url_idx
                            /\ IF AbortOnFailure(args.fail_fast)
                               THEN /\ Raise("consensus", "RuntimeError", results, failures')
                                    /\ idx' = idx
                               ELSE /\ idx' = idx + 1
                                    /\ pc' = "load_sources"
                                    /\ hist' = hist
                  ELSE /\ attempt' = attempt + 1
                       /\ calls' = Append(called, Call("sleep", "", "", Backoff(attempt + 1)))
                       /\ UNCHANGED <<pc, idx, url_idx, failures, hist>>
          ELSE /\ log' = log \o <<Event("source_success", NONE, source_name, 0),
                                  Event("premios_parsed", NONE, source_name, 0)>>
               /\ results' = Append(results, SourceResult(source_name, url, o.record))
               /\ calls' = called
               /\ idx' = idx + 1
               /\ pc' = "load_sources"
               /\ UNCHANGED <<url_idx, attempt, failures, hist>>
    /\ UNCHANGED <<SOURCE_LOADERS, args, runs, next_uuid, run_id, requested_sources,
                   candidate_urls, Files, cb_vars, cmp_vars, pub_vars>>

\* ------------------------------------------------------------------------
\* Lines 593-647: no source loaded, quarantine with empty artifacts
\* ------------------------------------------------------------------------
\* A variant of AllSourcesTerminal that is satisfied by the first source alone.
FirstSourceTerminal(i, requested) == i > 1

\* the "for index, source_name in enumerate(requested_sources)" loop is over:
\* every requested source has loaded, was skipped or has exhausted its retries
AllSourcesTerminal(i, requested) == i > Len(requested)

QuarantineEmpty ==
    /\ pc = "load_sources"
    /\ AllSourcesTerminal(idx, requested_sources)
    /\ results = <<>>
    /\ LET listed == IF failures # <<>> THEN failures
                     ELSE [i \in 1..Len(requested_sources) |->
                              Failure(requested_sources[i], NoUrl, "No candidate URLs")]
           summary == Summary(next_uuid, Decision("quarantine", NONE, NONE, FALSE, <<0, 1>>),
                              FALSE, FALSE)
       IN /\ comparison_report' =
                Report(NONE, requested_sources, [sorteo |-> NONE, fecha |-> NONE],
                       Decision("quarantine", 0, 0, FALSE, <<0, 1>>),
                       FALSE, <<>>, {}, listed)
          /\ normalized' = _write_jsonl(<<>>)
          /\ state' = PersistState(<<>>)
          /\ next_uuid' = next_uuid + 1
          /\ summary_file' = summary
          /\ log' = Append(log, Event("pipeline_complete", next_uuid, "", 0))
          /\ Return("consensus", summary, NoRecord, results, failures)
    /\ UNCHANGED <<SOURCE_LOADERS, args, runs, run_id, Loop, calls, raw_dir, cb_vars, cmp_vars, pub_vars>>

\* ------------------------------------------------------------------------
\* Lines 649-805: consensus, decision, persistence, summary
\* ------------------------------------------------------------------------
Max(S) == CHOOSE x \in S : \A y \in S : y <= x

\* lines 668-677
LastDraw(res) ==
    LET sorteos == {IF res[i].record.sorteo = NONE THEN 0 ELSE res[i].record.sorteo :
                       i \in 1..Len(res)}
        fechas == {res[i].record.fecha : i \in 1..Len(res)} \ {NONE}
    IN [sorteo |-> Max(sorteos), fecha |-> IF fechas = {} THEN NONE ELSE Max(fechas)]

\* A variant of ConsensusStatus whose boundary is exclusive on the pass side.
ConsensusStatusStrict(mismatch_count, mismatch_ratio, mismatch_threshold) ==
    IF mismatch_count = 0 THEN "publish"
    ELSE IF RatLE(mismatch_ratio, mismatch_threshold) /\ ~RatEq(mismatch_ratio, mismatch_threshold)
         THEN "publish_with_warnings"
    ELSE "quarantine"

\* lines 730-746: the decision of the consensus path
ConsensusStatus(mismatch_count, mismatch_ratio, mismatch_threshold) ==
    IF mismatch_count = 0 THEN "publish"
    ELSE IF RatLE(mismatch_ratio, mismatch_threshold) THEN "publish_with_warnings"
    ELSE "quarantine"

RawFiles(res) == UNION {{<<res[i].name, "html">>, <<res[i].name, "json">>} : i \in 1..Len(res)}

\* A variant of Voters in which a failed source votes with no category.
VotersWithFailed(res, fails) ==
    res \o [i \in 1..Len(fails) |->
               SourceResult(fails[i].source, fails[i].url,
                            [sorteo |-> NONE, fecha |-> NONE, premios |-> <<>>])]

\* line 652: the category views are built from the loaded results alone
Voters(res, fails) == res

BuildAndPersist(o1, o2) ==
    /\ pc = "load_sources"
    /\ AllSourcesTerminal(idx, requested_sources)
    /\ results # <<>>
    \* the fetchers are called only with include_pozos
    /\ args.include_pozos \/ (o1 = Raised(RESULTADOS_URL) /\ o2 = Raised(OPENLOTO_URL))
    /\ raw_dir' = raw_dir \cup RawFiles(results)
    \* c: the consensus, computed once
    /\ \E c \in {_build_consensus(category_views(Voters(results, failures)))} :
          IF c.consensus_rows = <<>>
          THEN /\ Raise("consensus", "RuntimeError", results, failures)
               /\ UNCHANGED <<log, calls, normalized, state, comparison_report, summary_file>>
          ELSE LET last_draw == LastDraw(results)
                   collected == IF args.include_pozos THEN _collect_pozos(<<o1, o2>>) ELSE <<>>
                   merged == _merge_pozos(collected)
                   enriched == collected # <<>> /\ DOMAIN merged # {}
                   consensus_record ==
                       Record(last_draw.sorteo, last_draw.fecha, results[1].url,
                              c.consensus_rows, IF enriched THEN merged ELSE NoMontos, run_id)
                   prizes_changed ==
                       _compare_with_previous(consensus_record, _load_previous_state(state))
                   status == ConsensusStatus(Len(c.mismatches), c.mismatch_ratio,
                                             args.mismatch_threshold)
                   decision == Decision(status, Len(c.consensus_rows), Len(c.mismatches),
                                        status # "publish", c.mismatch_ratio)
                   final_summary == Summary(run_id, decision, prizes_changed,
                                            StartsWithPublish(decision.status))
               IN /\ calls' = IF args.include_pozos THEN calls \o FetcherCalls ELSE calls
                  /\ normalized' = _write_jsonl(<<consensus_record>>)
                  /\ state' = PersistState(<<consensus_record>>)
                  /\ comparison_report' =
                        Report(run_id, requested_sources, last_draw, decision, prizes_changed,
                               c.mismatches, Range(NamesOf(results)), failures)
                  /\ summary_file' = final_summary
                  /\ log' = log
                            \o <<Event("premios_consensus", NONE, "", 0)>>
                            \o (IF enriched THEN <<Event("pozos_enriched", NONE, "", 0)>> ELSE <<>>)
                            \o <<Event("pipeline_complete", run_id, "", 0)>>
                  /\ Return("consensus", final_summary, consensus_record, results, failures)
    /\ UNCHANGED <<SOURCE_LOADERS, args, runs, next_uuid, run_id, Loop, cb_vars, cmp_vars, pub_vars>>

Next ==
    \/ StartRun
    \/ \E o1 \in ResultadosOutcomes, o2 \in OpenlotoOutcomes : RunPozosOnly(o1, o2)
    \/ \E o \in OpenlotoOutcomes : RunOpenlotoOnly(o)
    \/ ResolveSource
    \/ \E o \in LoaderOutcomes : AttemptLoad(o)
    \/ QuarantineEmpty
    \/ \E o1 \in ResultadosOutcomes, o2 \in OpenlotoOutcomes : BuildAndPersist(o1, o2)

Spec == Init /\ [][Next]_vars

\* ------------------------------------------------------------------------
\* The consensus builder alone (lines 652-653): category_views of the loaded
\* results, then _build_consensus, on every order of up to three sources.
\* ------------------------------------------------------------------------
CbNames == {"24h", "t13", "tvn"}

NoV == <<NONE, NONE>>

PremiosOf(loto, terna) ==
    (IF loto = NoV THEN <<>> ELSE <<Item("Loto", loto)>>)
    \o (IF terna = NoV THEN <<>> ELSE <<Item("Terna", terna)>>)

PremiosChoices ==
    {PremiosOf(l, t) : l \in {NoV, V1, V2, V3}, t \in {NoV, V2}}
    \cup {PremiosN,
          <<Item("Loto", V1), Item("Loto", V2)>>,
          <<Item("Terna", V2), Item("Loto", V1)>>}

CbResult(name, premios) ==
    SourceResult(name, Url(name), [sorteo |-> 5198, fecha |-> 20241201, premios |-> premios])

Injective(f) == \A a, b \in DOMAIN f : f[a] = f[b] => a = b

\* the lists of results of distinct sources
CbInputs ==
    UNION {{[i \in 1..n |-> CbResult(names[i], premios[i])] :
               names \in {f \in [1..n -> CbNames] : Injective(f)},
               premios \in [1..n -> PremiosChoices]} : n \in 1..Cardinality(CbNames)}

IdleDeployment ==
    [loaders |-> {}, args |-> Args(<<>>, Overrides({}), 1, FALSE, <<1, 2>>, FALSE, FALSE)]

InitConsensus ==
    /\ PipelineStart(IdleDeployment)
    /\ CmpIdle
    /\ PubIdle
    /\ cb_results \in CbInputs
    /\ cb_op = "input"
    /\ cb_out = _build_consensus(<<>>)
    /\ cb_base = [results |-> <<>>, out |-> _build_consensus(<<>>)]

CbBuild ==
    /\ cb_op = "input"
    /\ cb_out' = _build_consensus(category_views(cb_results))
    /\ cb_op' = "build"
    /\ UNCHANGED <<cb_results, cb_base, pipeline_vars, cmp_vars, pub_vars>>

\* the same results in another iteration order
CbPermute(p) ==
    /\ cb_op = "build"
    /\ cb_base' = [results |-> cb_results, out |-> cb_out]
    /\ cb_results' = [i \in 1..Len(cb_results) |-> cb_results[p[i]]]
    /\ cb_out' = _build_consensus(category_views(cb_results'))
    /\ cb_op' = "permute"
    /\ UNCHANGED <<pipeline_vars, cmp_vars, pub_vars>>

\* one more loaded source
CbAddSource(name, premios) ==
    /\ cb_op = "build"
    /\ name \notin Range(NamesOf(cb_results))
    /\ cb_base' = [results |-> cb_results, out |-> cb_out]
    /\ cb_results' = Append(cb_results, CbResult(name, premios))
    /\ cb_out' = _build_consensus(category_views(cb_results'))
    /\ cb_op' = "add"
    /\ UNCHANGED <<pipeline_vars, cmp_vars, pub_vars>>

NextConsensus ==
    \/ CbBuild
    \/ \E p \in {f \in [1..Len(cb_results) -> 1..Len(cb_results)] : Injective(f)} : CbPermute(p)
    \/ \E name \in CbNames, premios \in PremiosChoices : CbAddSource(name, premios)

SpecConsensus == InitConsensus /\ [][NextConsensus]_vars

\* ------------------------------------------------------------------------
\* _compare_with_previous alone (lines 272-295), on records whose premios
\* come in any order and on state files of up to MaxPrevious records.
\* ------------------------------------------------------------------------
MaxPrevious == 2

CmpSorteos == {5198, 5199, NONE}

CmpPremios ==
    { <<>>,
      <<Item("Loto", V1)>>,
      <<Item("Loto", V1), Item("Loto", V1)>>,
      <<Item("Loto", V1), Item("Terna", V2)>>,
      <<Item("Terna", V2), Item("Loto", V1)>>,
      <<Item("Loto", V3), Item("Terna", V2)>>,
      <<Item("Loto", V2), Item("Terna", V1)>> }

CmpRecords == {[sorteo |-> n, premios |-> pr] : n \in CmpSorteos, pr \in CmpPremios}

CmpPreviousFiles == UNION {[1..n -> CmpRecords] : n \in 0..MaxPrevious}

InitCompare ==
    /\ PipelineStart(IdleDeployment)
    /\ CbIdle
    /\ PubIdle
    /\ cmp_current \in CmpRecords
    /\ cmp_previous \in CmpPreviousFiles
    /\ cmp_op = "input"
    /\ cmp_out = TRUE

CmpCompare ==
    /\ cmp_op = "input"
    /\ cmp_out' = _compare_with_previous(cmp_current, cmp_previous)
    /\ cmp_op' = "compare"
    /\ UNCHANGED <<cmp_current, cmp_previous, pipeline_vars, cb_vars, pub_vars>>

NextCompare == CmpCompare

SpecCompare == InitCompare /\ [][NextCompare]_vars

\* ------------------------------------------------------------------------
\* publish_to_google_sheets (src/polla_app/publish.py), called between runs
\* on the normalized output, the comparison report and, when --summary is
\* given, the summary file the pipeline left behind.
\* ------------------------------------------------------------------------
\* _record_to_rows: one 8-column row per premio, or, for a record without
\* premios, one (categoria, monto) row per pozo.  The rows are kept as a set.
_record_to_rows(record) ==
    IF record.premios # <<>>
    THEN {<<record.sorteo, record.fecha, record.fuente,
            record.premios[i].categoria, record.premios[i].premio_clp,
            record.premios[i].ganadores, record.pozos_proximo, record.run_id>> :
              i \in 1..Len(record.premios)}
    ELSE {<<c, record.pozos_proximo[c]>> : c \in DOMAIN record.pozos_proximo}

_mismatch_rows(report) ==
    [i \in 1..Len(report.mismatches) |->
        <<report.last_draw.sorteo, report.mismatches[i].categoria,
          report.mismatches[i].consensus, report.mismatches[i].disagreeing,
          report.mismatches[i].missing_sources>>]

\* summary_payload with exists = FALSE stands for the empty dict of "summary or {}"
_parse_publish_decision(report, summary_payload, force_publish) ==
    IF summary_payload.exists
    THEN [publish_allowed |-> summary_payload.publish,
          status |-> summary_payload.decision.status]
    ELSE [publish_allowed |-> StartsWithPublish(report.decision.status),
          status |-> report.decision.status]

_canonical_rows_header(rows) ==
    IF \E r \in rows : Len(r) = 2
    THEN <<"categoria", "pozo_clp">>
    ELSE <<"sorteo", "fecha", "fuente", "categoria", "premio_clp", "ganadores",
           "pozos_proximo", "provenance">>

\* [ws, updated_rows]: nothing is touched when there is no row
_update_canonical_worksheet(ws, rows) ==
    IF rows = {} THEN [ws |-> ws, updated_rows |-> 0]
    ELSE [ws |-> Worksheet(TRUE, _canonical_rows_header(rows), rows),
          updated_rows |-> Cardinality(rows)]

DiscrepancyHeaders == <<"sorteo", "categoria", "consensus", "disagreeing", "missing_sources">>

_update_discrepancy_sheet(ws, report, mismatch_rows, allow_quarantine) ==
    IF mismatch_rows = <<>> /\ ~allow_quarantine THEN ws
    ELSE Worksheet(TRUE, DiscrepancyHeaders,
                   IF mismatch_rows # <<>> THEN mismatch_rows
                   ELSE <<<<report.last_draw.sorteo, "", "", "", "">>>>)

\* A variant of CanonicalAllowed that lets every run through.
CanonicalAllowedAlways(publish_allowed, force_publish) == TRUE

\* line 233: "if publish_allowed or force_publish"
CanonicalAllowed(publish_allowed, force_publish) == publish_allowed \/ force_publish

PublishArgs ==
    [with_summary : BOOLEAN, dry_run : BOOLEAN, force_publish : BOOLEAN,
     allow_quarantine : BOOLEAN, spreadsheet_id : BOOLEAN]

PubRaise(exc) ==
    /\ pub_out' = [raised |-> TRUE, exc |-> exc, result |-> NoResult]
    /\ UNCHANGED <<canonical_ws, discrepancy_ws>>

publish_to_google_sheets(a) ==
    /\ pc = "idle"
    /\ pub_op = "none"
    /\ pub_op' = "published"
    /\ pub_args' = a
    /\ IF ~normalized.exists THEN PubRaise("FileNotFoundError")
       ELSE IF normalized.rows = <<>> THEN PubRaise("RuntimeError")
       ELSE IF ~comparison_report.exists THEN PubRaise("FileNotFoundError")
       ELSE LET report == comparison_report
                \* __main__.py:280-286: the summary file when --summary names one that exists
                summary_payload == IF a.with_summary /\ summary_file.exists
                                   THEN summary_file ELSE NoSummary
                rows == _record_to_rows(normalized.rows[1])
                mismatch_rows == _mismatch_rows(report)
                d == _parse_publish_decision(report, summary_payload, a.force_publish)
                result == [updated_rows |-> 0, discrepancy_rows |-> Len(mismatch_rows),
                           status |-> d.status,
                           publish_allowed |-> d.publish_allowed \/ a.force_publish]
            IN IF a.dry_run
               THEN /\ pub_out' = [raised |-> FALSE, exc |-> "", result |-> result]
                    /\ UNCHANGED <<canonical_ws, discrepancy_ws>>
               ELSE IF ~a.spreadsheet_id THEN PubRaise("ConfigError")
               ELSE LET u == IF CanonicalAllowed(d.publish_allowed, a.force_publish)
                             THEN _update_canonical_worksheet(canonical_ws, rows)
                             ELSE [ws |-> canonical_ws, updated_rows |-> 0]
                    IN /\ canonical_ws' = u.ws
                       /\ discrepancy_ws' =
                             _update_discrepancy_sheet(discrepancy_ws, report, mismatch_rows,
                                                       a.allow_quarantine)
                       /\ pub_out' = [raised |-> FALSE, exc |-> "",
                                      result |-> [result EXCEPT !.updated_rows = u.updated_rows]]
    /\ UNCHANGED <<pipeline_vars, cb_vars, cmp_vars>>

\* the pipeline runs until the publisher is called
NextPublish ==
    \/ pub_op = "none" /\ Next
    \/ \E a \in PublishArgs : publish_to_google_sheets(a)

SpecPublish == Init /\ [][NextPublish]_vars

\* ------------------------------------------------------------------------
\* Three consecutive runs of one deployment, a single source with an
\* override URL, over the same state file.
\* ------------------------------------------------------------------------
MaxRunsHistory == 3

HistoryDeployment ==
    [loaders |-> LoaderNames,
     args |-> Args(<<"t13">>, Overrides({"t13"}), 1, FALSE, <<1, 2>>, FALSE, FALSE)]

InitHistory == PipelineStart(HistoryDeployment) /\ CbIdle /\ CmpIdle /\ PubIdle

NextHistory ==
    \/ StartRunUpTo(MaxRunsHistory)
    \/ ResolveSource
    \/ \E o \in LoaderOutcomes : AttemptLoad(o)
    \/ QuarantineEmpty
    \/ BuildAndPersist(Raised(RESULTADOS_URL), Raised(OPENLOTO_URL))

SpecHistory == InitHistory /\ [][NextHistory]_vars

\* ========================================================================
\* Properties
\* ========================================================================
Finished == pc = "idle" /\ hist # <<>>

Last == hist[Len(hist)]

PublishingStatuses == {"publish", "publish_with_warnings", "publish_forced"}

\* two consecutive consensus runs that loaded the same results, the sources
\* agreeing on every category, the first one over a state file with no record
SameDataTwice(i) ==
    /\ hist[i].mode = "consensus" /\ hist[i + 1].mode = "consensus"
    /\ hist[i].returned /\ hist[i + 1].returned
    /\ hist[i].results # <<>>
    /\ hist[i].results = hist[i + 1].results
    /\ hist[i].summary.decision.mismatched_categories = 0
    /\ hist[i].state_before.rows = <<>>

\* C1: in consensus mode, of two consecutive runs over the same state file
\* that load the same data, the first reports prizes_changed = true and
\* publish = true, the second prizes_changed = false and publish = false.
C1_ConsensusRunsIdempotent ==
    \A i \in 1..(Len(hist) - 1) :
        SameDataTwice(i) =>
            /\ hist[i].summary.prizes_changed /\ hist[i].summary.publish
            /\ ~hist[i + 1].summary.prizes_changed /\ ~hist[i + 1].summary.publish

\* the record a pozos-only run built equals, in sorteo, fecha and amounts, a
\* record of the state file the run started with
SameAsPersisted(h) ==
    \E k \in 1..Len(h.state_before.rows) :
        /\ h.state_before.rows[k].sorteo = h.record.sorteo
        /\ h.state_before.rows[k].fecha = h.record.fecha
        /\ h.state_before.rows[k].pozos_proximo = h.record.pozos_proximo

\* C2: a pozos-only run without force_publish returns skip, prizes_changed =
\* false and publish = false when its sorteo, fecha and merged amounts equal
\* those of the persisted record, and publish with publish = true otherwise.
C2_PozosSkipIffUnchanged ==
    \A i \in 1..Len(hist) :
        (hist[i].mode = "pozos" /\ hist[i].returned /\ ~args.force_publish) =>
            IF SameAsPersisted(hist[i])
            THEN /\ hist[i].summary.decision.status = "skip"
                 /\ ~hist[i].summary.prizes_changed
                 /\ ~hist[i].summary.publish
            ELSE /\ hist[i].summary.decision.status = "publish"
                 /\ hist[i].summary.publish

\* the second pozos-only run found its record in the state file and skipped
C2_Witness ==
    /\ Len(hist) = 2
    /\ hist[2].mode = "pozos" /\ hist[2].returned /\ ~args.force_publish
    /\ hist[2].summary.decision.status = "skip"
    /\ SameAsPersisted(hist[2])

\* a consensus run that reached the decision engine
Decided(h) == h.mode = "consensus" /\ h.returned /\ h.results # <<>>

\* C3: in consensus mode the status is publish iff no category is mismatched,
\* publish_with_warnings iff some category is mismatched and mismatched/total
\* <= mismatch_threshold, quarantine iff mismatched/total > mismatch_threshold.
C3_DecisionThreeWay ==
    \A i \in 1..Len(hist) :
        Decided(hist[i]) =>
            LET d == hist[i].summary.decision
                m == d.mismatched_categories
                within == m * args.mismatch_threshold[2]
                              <= args.mismatch_threshold[1] * d.total_categories
            IN /\ d.status \in {"publish", "publish_with_warnings", "quarantine"}
               /\ d.status = "publish" <=> m = 0
               /\ d.status = "publish_with_warnings" <=> (m >= 1 /\ within)
               /\ d.status = "quarantine" <=> ~within

\* a ratio exactly equal to the threshold gave publish_with_warnings
C3_Witness ==
    \E i \in 1..Len(hist) :
        /\ Decided(hist[i])
        /\ hist[i].summary.decision.status = "publish_with_warnings"
        /\ hist[i].summary.decision.mismatched_categories * args.mismatch_threshold[2]
               = args.mismatch_threshold[1] * hist[i].summary.decision.total_categories

\* C4: on every path a returned summary has publish = true iff its status
\* starts with "publish"; quarantine and skip never have publish = true.
C4_PublishIffPublishStatus ==
    \A i \in 1..Len(hist) :
        hist[i].returned =>
            /\ hist[i].summary.publish <=> hist[i].summary.decision.status \in PublishingStatuses
            /\ hist[i].summary.decision.status \in {"quarantine", "skip"}
                   => ~hist[i].summary.publish

\* a consensus run returned publish_with_warnings with publish = true
C4_Witness ==
    \E i \in 1..Len(hist) :
        /\ hist[i].returned
        /\ hist[i].summary.decision.status = "publish_with_warnings"
        /\ hist[i].summary.publish

\* C5: with fail_fast = false a run in which no requested source loads does
\* not raise: it returns quarantine with publish = false, and the comparison
\* report, normalized output, state file and summary file exist afterwards.
C5_ZeroSourcesQuarantine ==
    (Finished /\ Last.mode = "consensus" /\ ~args.fail_fast /\ Last.results = <<>>) =>
        /\ Last.returned
        /\ Last.summary.decision.status = "quarantine"
        /\ ~Last.summary.publish
        /\ comparison_report.exists /\ normalized.exists
        /\ state.exists /\ summary_file.exists

\* the (premio_clp, ganadores) pair of a consensus row
PairOfRow(row) == <<row.premio_clp, row.ganadores>>

MismatchedCats(out) == {out.mismatches[j].categoria : j \in 1..Len(out.mismatches)}

\* C6: _build_consensus returns the same consensus rows and the same
\* mismatches for every iteration order of the same source map.
C6_PermutationInvariant ==
    cb_op = "permute" =>
        /\ cb_out.consensus_rows = cb_base.out.consensus_rows
        /\ cb_out.mismatches = cb_base.out.mismatches

\* the categories of R's consensus on which the added source reports another value
AddedDisagrees ==
    LET s == category_views(<<cb_results[Len(cb_results)]>>)[1]
        rows == cb_base.out.consensus_rows
    IN {rows[i].categoria : i \in {k \in 1..Len(rows) :
            /\ rows[k].categoria \in DOMAIN s.data
            /\ s.data[rows[k].categoria] # PairOfRow(rows[k])}}

\* C7: adding to a non-empty source map R a source whose value for a category
\* c differs from R's consensus value keeps every mismatch entry of R and
\* gives c a mismatch entry.
C7_MismatchMonotone ==
    (cb_op = "add" /\ AddedDisagrees # {}) =>
        /\ MismatchedCats(cb_base.out) \subseteq MismatchedCats(cb_out)
        /\ AddedDisagrees \subseteq MismatchedCats(cb_out)

\* a source was added that disagrees on a category R had no mismatch for,
\* while R had a mismatch on another one
C7_Witness ==
    /\ cb_op = "add"
    /\ AddedDisagrees \ MismatchedCats(cb_base.out) # {}
    /\ MismatchedCats(cb_base.out) # {}

\* C8: a category has a mismatch entry iff a loaded source reports a pair
\* other than the consensus pair or does not report the category; the entry's
\* disagreeing holds exactly the sources whose pair differs, with their pairs,
\* and missing_sources exactly the loaded sources that do not report it;
\* mismatch_ratio is the number of entries over the number of rows.
C8_MismatchEntryExact ==
    cb_op # "input" =>
        LET views == category_views(cb_results)
            rows == cb_out.consensus_rows
            ms == cb_out.mismatches
        IN /\ \A i \in 1..Len(rows) :
                LET c == rows[i].categoria
                    D == {k \in 1..Len(views) :
                             c \in DOMAIN views[k].data /\ views[k].data[c] # PairOfRow(rows[i])}
                    M == {k \in 1..Len(views) : c \notin DOMAIN views[k].data}
                    E == {j \in 1..Len(ms) : ms[j].categoria = c}
                IN /\ E # {} <=> (D \cup M) # {}
                   /\ Cardinality(E) <= 1
                   /\ \A j \in E :
                        /\ DOMAIN ms[j].disagreeing = {views[k].name : k \in D}
                        /\ \A k \in D :
                             ms[j].disagreeing[views[k].name]
                                 = [premio_clp |-> views[k].data[c][1],
                                    ganadores |-> views[k].data[c][2]]
                        /\ Range(ms[j].missing_sources) = {views[k].name : k \in M}
                        /\ Len(ms[j].missing_sources) = Cardinality(M)
           /\ \A j \in 1..Len(ms) : \E i \in 1..Len(rows) : rows[i].categoria = ms[j].categoria
           /\ rows # <<>> =>
                  cb_out.mismatch_ratio[1] * Len(rows) = Len(ms) * cb_out.mismatch_ratio[2]

\* an entry with a disagreeing source and a missing source, next to a category
\* all sources agree on
C8_Witness ==
    /\ cb_op # "input"
    /\ Len(cb_out.consensus_rows) = 2
    /\ Len(cb_out.mismatches) = 1
    /\ DOMAIN cb_out.mismatches[1].disagreeing # {}
    /\ cb_out.mismatches[1].missing_sources # <<>>

\* C9: the consensus has exactly one row for a category iff a loaded source
\* reported it under a non-empty name, and the row's pair is one a source
\* reports for the category (the pair its category map holds) and no other
\* pair is reported by more sources.
C9_RowPerReportedCategory ==
    cb_op # "input" =>
        LET views == category_views(cb_results)
            rows == cb_out.consensus_rows
            reported(c) == \E k \in 1..Len(cb_results) :
                               \E n \in 1..Len(cb_results[k].record.premios) :
                                   cb_results[k].record.premios[n].categoria = c
            cnt(c, v) == Cardinality({k \in 1..Len(views) :
                             c \in DOMAIN views[k].data /\ views[k].data[c] = v})
        IN /\ \A i \in 1..Len(rows) : rows[i].categoria \in Range(SortedCats)
           /\ \A c \in Range(SortedCats) :
                Cardinality({i \in 1..Len(rows) : rows[i].categoria = c})
                    = IF c # "" /\ reported(c) THEN 1 ELSE 0
           /\ \A i \in 1..Len(rows) :
                /\ cnt(rows[i].categoria, PairOfRow(rows[i])) >= 1
                /\ \A k \in 1..Len(views) :
                     rows[i].categoria \in DOMAIN views[k].data =>
                         cnt(rows[i].categoria, views[k].data[rows[i].categoria])
                             <= cnt(rows[i].categoria, PairOfRow(rows[i]))

\* three sources, the first in iteration order outvoted two to one
C9_Witness ==
    /\ cb_op = "build"
    /\ Len(cb_results) = 3
    /\ cb_results[1].record.premios = <<Item("Loto", V1)>>
    /\ cb_results[2].record.premios = <<Item("Loto", V2)>>
    /\ cb_results[3].record.premios = <<Item("Loto", V2)>>
    /\ cb_out.consensus_rows = <<Item("Loto", V2)>>

\* C10: with fail_fast = false a failing source never stops the run: every
\* requested source ends either loaded or exactly once in the failures of the
\* comparison report and not in its sources; a source without URL is never
\* handed to the loader and a source_missing_url event is logged for it.
C10_FailedSourceDoesNotStopRun ==
    (Finished /\ Last.mode = "consensus" /\ ~args.fail_fast) =>
        \A k \in 1..Len(requested_sources) :
            LET s == requested_sources[k]
                loaded == \E n \in 1..Len(results) : results[n].name = s
                failed == {n \in 1..Len(failures) : failures[n].source = s}
            IN \/ loaded /\ failed = {}
               \/ /\ ~loaded
                  /\ Cardinality(failed) = 1
                  /\ Last.returned =>
                        /\ Cardinality({n \in 1..Len(comparison_report.failures) :
                               comparison_report.failures[n].source = s}) = 1
                        /\ s \notin comparison_report.sources
                  /\ s \notin DOMAIN args.source_overrides =>
                        /\ \A n \in 1..Len(calls) : calls[n].source # s
                        /\ \E n \in 1..Len(log) :
                               log[n].event = "source_missing_url" /\ log[n].source = s

\* the events the current run has appended to the log: those from its
\* pipeline_start on
RunLog ==
    IF log = <<>> THEN <<>>
    ELSE LET start == CHOOSE n \in 1..Len(log) :
                          /\ log[n].event = "pipeline_start"
                          /\ \A k \in (n + 1)..Len(log) : log[k].event # "pipeline_start"
         IN SubSeq(log, start, Len(log))

\* a source of the current run has failed: it exhausted its URLs or has none
SourceFailed ==
    \/ failures # <<>>
    \/ \E n \in 1..Len(RunLog) : RunLog[n].event = "source_missing_url"

LoaderCalled(s) == \E n \in 1..Len(calls) : calls[n].op = "loader" /\ calls[n].source = s

\* C11: with fail_fast = true the first requested source that fails makes
\* run_pipeline raise at once: no loader is invoked for a later source, no
\* summary is returned and no pipeline_complete event is logged.
C11_FailFastAbortsAtFirstFailure ==
    (args.fail_fast /\ SourceFailed) =>
        /\ Finished
        /\ Last.run_id = run_id
        /\ ~Last.returned /\ Last.exc = "RuntimeError"
        /\ ~Last.summary.exists
        /\ \A k \in (idx + 1)..Len(requested_sources) : ~LoaderCalled(requested_sources[k])
        /\ \A n \in 1..Len(RunLog) : RunLog[n].event # "pipeline_complete"
        /\ Len(failures) <= 1

\* the first of two sources exhausted its URL under fail_fast
C11_Witness ==
    /\ args.fail_fast /\ Finished
    /\ Len(requested_sources) = 2 /\ idx = 1
    /\ failures # <<>>
    /\ LoaderCalled(requested_sources[1])

\* the sources of the current run that failed
FailedSources ==
    {failures[n].source : n \in 1..Len(failures)}
    \cup {RunLog[n].source : n \in {k \in 1..Len(RunLog) : RunLog[k].event = "source_missing_url"}}

\* C12: every source failure of a run, tolerated or aborting the run under
\* fail_fast, is logged as an event and listed in the failures of the
\* comparison report, and the report found after a run is the report of that
\* run.  (Runs stopped by the undefined name of line 510 are set aside.)
C12_FailuresLoggedAndReported ==
    (Finished /\ Last.mode = "consensus" /\ Last.exc # "NameError") =>
        /\ \A s \in FailedSources :
              /\ \E n \in 1..Len(RunLog) :
                    /\ RunLog[n].source = s
                    /\ RunLog[n].event \in {"source_error", "source_missing_url"}
              /\ comparison_report.exists
              /\ \E n \in 1..Len(comparison_report.failures) :
                    comparison_report.failures[n].source = s
        /\ FailedSources # {} =>
              /\ comparison_report.exists
              /\ comparison_report.sources = Range(NamesOf(results))

\* positions in calls of the loader calls for source s
LoaderCallsOf(s) == {n \in 1..Len(calls) : calls[n].op = "loader" /\ calls[n].source = s}

Loaded(s) == \E n \in 1..Len(results) : results[n].name = s

\* the source_error events of the current run for source s, in log order
ErrorsOf(s) == SelectSeq(RunLog, LAMBDA e : e.event = "source_error" /\ e.source = s)

\* the loader call at position n raised: it is not the call that loaded its source
CallFailed(n) ==
    ~(Loaded(calls[n].source) /\ \A j \in LoaderCallsOf(calls[n].source) : j <= n)

\* C13: for retries >= 1 the loader is invoked at most retries times on a
\* candidate URL; each failed invocation logs one source_error event, with
\* attempt numbers 1, 2, ... in order; after the k-th failed attempt with
\* k < retries the pipeline sleeps min(2k, 10) seconds before the next
\* attempt, and it does not sleep after the last failed attempt.
C13_RetriesAndBackoff ==
    /\ \A s \in Range(requested_sources) :
          LET errs == ErrorsOf(s)
              failed == {n \in LoaderCallsOf(s) : CallFailed(n)}
          IN /\ Cardinality(LoaderCallsOf(s)) <= args.retries
             /\ \A n, j \in LoaderCallsOf(s) : calls[n].url = calls[j].url
             /\ Len(errs) = Cardinality(failed)
             /\ \A k \in 1..Len(errs) : errs[k].attempt = k
    /\ \A n \in 1..Len(calls) :
          /\ calls[n].op = "loader" =>
                LET k == Cardinality({j \in LoaderCallsOf(calls[n].source) : j <= n})
                    sleeps == n < Len(calls) /\ calls[n + 1].op = "sleep"
                IN IF CallFailed(n) /\ k < args.retries
                   THEN /\ sleeps
                        /\ calls[n + 1].secs = (IF 2 * k <= 10 THEN 2 * k ELSE 10)
                        /\ n + 1 < Len(calls) => calls[n + 2].op = "loader"
                   ELSE ~sleeps
          /\ calls[n].op = "sleep" => n > 1 /\ calls[n - 1].op = "loader"

\* seven attempts on one URL all failed: six sleeps, the sixth capped at ten
\* seconds, and none after the seventh attempt
C13_Witness ==
    /\ args.retries = 7
    /\ Len(calls) = 13
    /\ calls[12].op = "sleep" /\ calls[12].secs = 10
    /\ calls[13].op = "loader"
    /\ failures # <<>>
    /\ Len(ErrorsOf(requested_sources[1])) = 7

\* positions in the current run's log of the events of a kind for source s
EventsAt(kind, s) ==
    {n \in 1..Len(RunLog) : RunLog[n].event = kind /\ RunLog[n].source = s}

NoSorteo(h) == \A n \in 1..Len(h.results) : h.results[n].record.sorteo = NONE

\* C15: a run whose record has no sorteo, no loaded source supplying one,
\* reports prizes_changed = true whatever the state file holds, also when
\* the previous run persisted the same categories and amounts without sorteo.
C15_NoSorteoAlwaysChanged ==
    \A i \in 1..Len(hist) :
        (Decided(hist[i]) /\ NoSorteo(hist[i])) => hist[i].summary.prizes_changed

\* how many times the row t is listed in premios
RowCount(premios, t) == Cardinality({n \in 1..Len(premios) : premios[n] = t})

\* the same collection of (categoria, premio_clp, ganadores) rows, whatever the order
SameRows(a, b) ==
    \A t \in Range(a) \cup Range(b) : RowCount(a, t) = RowCount(b, t)

\* C16: for a current record with a sorteo, _compare_with_previous returns
\* false (unchanged) iff some persisted record has the same sorteo and the
\* same collection of (categoria, premio_clp, ganadores) rows, whatever their
\* order; otherwise it returns true (changed).
C16_CompareOrderIndependent ==
    (cmp_op = "compare" /\ cmp_current.sorteo # NONE) =>
        (cmp_out = FALSE <=>
            \E i \in 1..Len(cmp_previous) :
                /\ cmp_previous[i].sorteo = cmp_current.sorteo
                /\ SameRows(cmp_previous[i].premios, cmp_current.premios))

\* unchanged against the second persisted record, which lists the same rows
\* in another order, the first one being of another draw
C16_Witness ==
    /\ cmp_op = "compare" /\ cmp_out = FALSE
    /\ Len(cmp_previous) = 2
    /\ cmp_previous[1].sorteo # cmp_current.sorteo
    /\ cmp_previous[2].sorteo = cmp_current.sorteo
    /\ cmp_previous[2].premios # cmp_current.premios
    /\ Len(cmp_current.premios) = 2

\* C17: force_publish only upgrades skip.  In pozos-only mode with
\* force_publish a run whose sorteo, fecha and amounts equal the persisted
\* record returns publish_forced with publish = true and prizes_changed =
\* false, and a run whose data changed returns plain publish; in consensus
\* mode force_publish never turns a quarantine into a publishing decision.
C17_ForcePublishOnlyUpgradesSkip ==
    \A i \in 1..Len(hist) :
        LET h == hist[i]
            d == h.summary.decision
        IN /\ (h.mode = "pozos" /\ h.returned /\ args.force_publish) =>
                 IF SameAsPersisted(h)
                 THEN d.status = "publish_forced" /\ h.summary.publish
                          /\ ~h.summary.prizes_changed
                 ELSE d.status = "publish" /\ h.summary.publish
           /\ (h.returned /\ d.status = "publish_forced") =>
                 h.mode = "pozos" /\ args.force_publish /\ SameAsPersisted(h)
           /\ (Decided(h) /\ args.force_publish
                  /\ d.mismatched_categories * args.mismatch_threshold[2]
                         > args.mismatch_threshold[1] * d.total_categories) =>
                 d.status = "quarantine" /\ ~h.summary.publish
           /\ (h.mode = "consensus" /\ h.returned /\ h.results = <<>> /\ args.force_publish) =>
                 d.status = "quarantine" /\ ~h.summary.publish

\* with force_publish the first pozos-only run published and the second,
\* finding its record persisted, returned publish_forced
C17_Witness ==
    /\ Len(hist) = 2 /\ args.force_publish
    /\ hist[1].mode = "pozos" /\ hist[1].returned
    /\ hist[1].summary.decision.status = "publish"
    /\ hist[2].mode = "pozos" /\ hist[2].returned
    /\ hist[2].summary.decision.status = "publish_forced"
    /\ hist[2].summary.publish /\ ~hist[2].summary.prizes_changed

\* no loaded source lists an item under a category name
NoCategory(res) ==
    \A n \in 1..Len(res) :
        \A k \in 1..Len(res[n].record.premios) : res[n].record.premios[k].categoria = ""

\* C18: if at least one source loads but the loaded sources report no
\* category at all, run_pipeline raises instead of returning a quarantine
\* summary, and no step of the run changes the normalized output, the state
\* file, the comparison report or the summary file.
C18_NoCategoryRaises ==
    /\ []((Finished /\ Last.mode = "consensus" /\ Last.results # <<>>
              /\ NoCategory(Last.results)) =>
             (~Last.returned /\ ~Last.summary.exists /\ Last.exc # ""))
    /\ [][(pc' # "idle" \/ (results' # <<>> /\ NoCategory(results'))) =>
             UNCHANGED <<normalized, state, comparison_report, summary_file>>]_vars

\* a first run published a record; the second loaded a source that lists no
\* category, raised, and the four files are still those of the first run
C18_Witness ==
    /\ pc = "idle" /\ Len(hist) = 2
    /\ hist[1].mode = "consensus" /\ hist[1].returned /\ hist[1].results # <<>>
    /\ ~hist[2].returned /\ hist[2].exc = "RuntimeError"
    /\ hist[2].results # <<>> /\ NoCategory(hist[2].results)
    /\ normalized.rows = <<hist[1].record>>
    /\ state.rows = <<hist[1].record>>
    /\ summary_file = hist[1].summary
    /\ comparison_report.run_id = hist[1].run_id

\* C19: every event a run writes to the log carries a timestamp and the
\* run_id of the run, the same on all its events, and that run_id is the
\* run_id of the summary the run returns, on every path.
C19_EventsShareRunId ==
    (Finished /\ Last.returned) =>
        \A n \in 1..Len(RunLog) :
            /\ RunLog[n].timestamp
            /\ RunLog[n].run_id = RunLog[1].run_id
            /\ RunLog[n].run_id = Last.summary.run_id

\* the run returned the quarantine summary of lines 593-647: no source loaded
ZeroSources(h) == h.mode = "consensus" /\ h.returned /\ h.results = <<>>

\* C20 as stated: after every run that returns a summary the normalized
\* output contains exactly one record, the record built by that run.
C20_ExactlyOneRecord ==
    (Finished /\ Last.returned) =>
        /\ normalized.exists
        /\ Len(normalized.rows) = 1
        /\ normalized.rows[1] = Last.record

\* C20, amended: after every run that returns a summary the normalized
\* output holds nothing but the record built by that run, and nothing at all
\* when the run is the zero-sources quarantine; records of earlier runs never
\* accumulate in it.
C20_OnlyTheRecordOfTheRun ==
    (Finished /\ Last.returned) =>
        /\ normalized.exists
        /\ normalized.rows = IF ZeroSources(Last) THEN <<>> ELSE <<Last.record>>
        /\ Last.mode = "consensus" =>
              \A n \in 1..Len(normalized.rows) : normalized.rows[n].run_id = Last.run_id

\* a first run wrote its record; the second loaded no source, returned the
\* quarantine summary, and the normalized output is empty
C20_Witness ==
    /\ pc = "idle" /\ Len(hist) = 2
    /\ hist[1].mode = "consensus" /\ hist[1].returned /\ hist[1].results # <<>>
    /\ ZeroSources(hist[2])
    /\ normalized.exists /\ normalized.rows = <<>>

\* C21: the state file holds the record of the last successful run: a run
\* that ends in quarantine, its mismatch ratio above the threshold or no
\* source loaded, neither replaces nor erases the record persisted before.
C21_QuarantineKeepsState ==
    (Finished /\ Last.returned /\ Last.summary.decision.status = "quarantine") =>
        state = Last.state_before

PubDone == pub_op = "published"

PubReturned == PubDone /\ ~pub_out.raised

\* what the publisher was given: the summary when --summary names an existing file
PubSummaryGiven == pub_args.with_summary /\ summary_file.exists

PubDisallowed ==
    IF PubSummaryGiven THEN ~summary_file.publish
    ELSE comparison_report.decision.status \notin PublishingStatuses

\* C22: the canonical worksheet is written only when publishing is allowed
\* (summary publish flag, or without a summary a report status starting with
\* "publish") or forced; otherwise it is neither cleared nor updated and
\* updated_rows = 0, while the discrepancy worksheet is still written when
\* allow_quarantine is set; a dry run touches no worksheet.
C22_CanonicalOnlyWhenAllowed ==
    /\ (PubDone /\ pub_args.dry_run) =>
           ~canonical_ws.touched /\ ~discrepancy_ws.touched
    /\ (PubReturned /\ PubDisallowed /\ ~pub_args.force_publish) =>
           /\ ~canonical_ws.touched
           /\ pub_out.result.updated_rows = 0
           /\ ~pub_out.result.publish_allowed
    /\ (PubReturned /\ ~pub_args.dry_run /\ pub_args.allow_quarantine) =>
           /\ discrepancy_ws.touched
           /\ discrepancy_ws.header = DiscrepancyHeaders
           /\ Len(discrepancy_ws.rows) >= 1

C22_Witness ==
    /\ PubReturned
    /\ ~pub_args.dry_run /\ ~pub_args.force_publish /\ pub_args.allow_quarantine
    /\ PubSummaryGiven /\ ~summary_file.publish
    /\ summary_file.decision.status = "quarantine"
    /\ comparison_report.mismatches # <<>>
    /\ discrepancy_ws.touched
    /\ ~canonical_ws.touched

\* C23: the publisher, run on the artifacts of a zero-sources quarantine run,
\* completes without raising and performs no canonical update.
C23_ZeroSourcesArtifactsPublishable ==
    (PubDone /\ Finished /\ Last.returned /\ ZeroSources(Last)
        /\ (pub_args.dry_run \/ pub_args.spreadsheet_id)) =>
        ~pub_out.raised /\ ~canonical_ws.touched

\* names the job accepts: the registered loaders and the three keywords
SupportedNames == SOURCE_LOADERS \cup {"all", "pozos", "openloto"}

HasUnsupported ==
    \E i \in 1..Len(args.sources) : Lower(args.sources[i]) \notin SupportedNames

\* C24: a request list containing an unsupported name fails at once, also
\* when it contains "pozos", "openloto" or "all": every run raises
\* ValueError, no loader or pozo fetcher is called, no artifact is written.
C24_UnsupportedNameFailsHard ==
    HasUnsupported =>
        /\ calls = <<>>
        /\ ~normalized.exists /\ ~comparison_report.exists /\ ~summary_file.exists
        /\ Finished => (~Last.returned /\ Last.exc = "ValueError")

SourceEvents == {"source_success", "source_error", "source_missing_url"}

\* the event at position k of the run's log ends the loading of source s
TerminalEvent(k, s) ==
    /\ RunLog[k].source = s
    /\ \/ RunLog[k].event \in {"source_success", "source_missing_url"}
       \/ RunLog[k].event = "source_error" /\ RunLog[k].attempt = args.retries

\* C25: the consensus is a barrier.  The premios_consensus event of a run
\* comes after a terminal event (loaded, missing URL, retries exhausted) of
\* every requested source, no source event of the run follows it, and the
\* consensus input, as reported, is exactly the sources that loaded.
C25_ConsensusIsBarrier ==
    \A n \in 1..Len(RunLog) :
        RunLog[n].event = "premios_consensus" =>
            /\ \A k \in (n + 1)..Len(RunLog) : RunLog[k].event \notin SourceEvents
            /\ \A i \in 1..Len(requested_sources) :
                  \E k \in 1..(n - 1) : TerminalEvent(k, requested_sources[i])
            /\ comparison_report.sources =
                  {RunLog[k].source : k \in {j \in 1..(n - 1) : RunLog[j].event = "source_success"}}
            /\ Range(NamesOf(Last.results)) = comparison_report.sources

C25_Witness ==
    /\ Finished /\ Last.returned
    /\ \E n \in 1..Len(RunLog) : RunLog[n].event = "premios_consensus"
    /\ Len(requested_sources) = 2
    /\ Len(Last.results) = 1
    /\ Len(Last.failures) = 1
    /\ Last.failures[1].source = requested_sources[2]

FailedNames(h) == {h.failures[i].source : i \in 1..Len(h.failures)}

\* C26: a source that failed to load takes no part in the vote: no mismatch
\* entry lists it as missing or disagreeing, and when exactly one source
\* loads while the others fail the mismatch list is empty and the run
\* publishes.
C26_FailedSourcesDoNotVote ==
    (Finished /\ Last.returned /\ Last.mode = "consensus" /\ Last.results # <<>>) =>
        /\ \A i \in 1..Len(comparison_report.mismatches) :
              LET m == comparison_report.mismatches[i]
              IN /\ Range(m.missing_sources) \cap FailedNames(Last) = {}
                 /\ DOMAIN m.disagreeing \cap FailedNames(Last) = {}
        /\ (Len(Last.results) = 1 /\ Last.failures # <<>>) =>
              /\ comparison_report.mismatches = <<>>
              /\ comparison_report.decision.mismatched_categories = 0
              /\ Last.summary.decision.status = "publish"
              /\ Last.summary.publish

C26_Witness ==
    /\ Finished /\ Last.returned /\ Last.mode = "consensus"
    /\ ~args.fail_fast
    /\ Len(Last.results) = 1
    /\ Len(Last.failures) = 1
    /\ Last.failures[1].error = "All candidate URLs failed"
    /\ Last.summary.decision.status = "publish"
    /\ Last.summary.publish

IsPrefix(a, b) == Len(a) <= Len(b) /\ SubSeq(b, 1, Len(a)) = a

\* C27: the event log is append-only across runs, raising runs included:
\* every step leaves what the log held as a prefix of what it holds after,
\* the step that starts a run adds exactly the pipeline_start event, and no
\* later step of the run adds another.
C27_LogAppendOnly ==
    [][/\ IsPrefix(log, log')
       /\ runs' # runs =>
             /\ Len(log') = Len(log) + 1
             /\ log'[Len(log')].event = "pipeline_start"
       /\ runs' = runs =>
             \A k \in (Len(log) + 1)..Len(log') : log'[k].event # "pipeline_start"]_vars

C27_Witness ==
    /\ Finished
    /\ Len(hist) = 2
    /\ ~hist[1].returned /\ hist[1].exc = "RuntimeError"
    /\ log[1].event = "pipeline_start"
    /\ \E k \in 2..Len(log) :
          /\ log[k].event = "pipeline_start"
          /\ log[k].run_id # log[1].run_id
          /\ \E j \in 2..(k - 1) : log[j].event \in SourceEvents
          /\ \E j \in (k + 1)..Len(log) : log[j].event = "pipeline_complete"

\* C28: support accounting.  In every mismatch entry support is at least 1,
\* it is the number of sources whose pair for the category is the consensus
\* pair, support + disagreeing + missing sources is the number of loaded
\* sources, the three groups are pairwise disjoint, and no other pair
\* reported for the category has more supporters.
C28_SupportAccounting ==
    cb_op # "input" =>
        LET views == category_views(cb_results)
            ms == cb_out.mismatches
        IN \A j \in 1..Len(ms) :
              LET c == ms[j].categoria
                  pair == <<ms[j].consensus.premio_clp, ms[j].consensus.ganadores>>
                  agreeing == {views[k].name : k \in {n \in 1..Len(views) :
                                  c \in DOMAIN views[n].data /\ views[n].data[c] = pair}}
                  disagreeing == DOMAIN ms[j].disagreeing
                  missing == Range(ms[j].missing_sources)
                  supporters(v) == Cardinality({k \in 1..Len(views) :
                                      c \in DOMAIN views[k].data /\ views[k].data[c] = v})
              IN /\ ms[j].consensus.support >= 1
                 /\ ms[j].consensus.support = Cardinality(agreeing)
                 /\ ms[j].consensus.support + Cardinality(disagreeing)
                       + Len(ms[j].missing_sources) = Len(cb_results)
                 /\ agreeing \cap disagreeing = {}
                 /\ agreeing \cap missing = {}
                 /\ disagreeing \cap missing = {}
                 /\ \A k \in 1..Len(views) :
                       c \in DOMAIN views[k].data =>
                           supporters(views[k].data[c]) <= ms[j].consensus.support

\* three sources: two agree on Terna and differ on Loto, the third reports neither
C28_Witness ==
    /\ cb_op # "input"
    /\ Len(cb_results) = 3
    /\ \E j \in 1..Len(cb_out.mismatches) :
          /\ cb_out.mismatches[j].consensus.support = 2
          /\ DOMAIN cb_out.mismatches[j].disagreeing = {}
          /\ Len(cb_out.mismatches[j].missing_sources) = 1
    /\ \E j \in 1..Len(cb_out.mismatches) :
          /\ cb_out.mismatches[j].consensus.support = 1
          /\ Cardinality(DOMAIN cb_out.mismatches[j].disagreeing) = 1
          /\ Len(cb_out.mismatches[j].missing_sources) = 1

LoadedRun(h) == h.mode = "consensus" /\ h.returned /\ h.results # <<>>

SameDraw(a, b) == a.sorteo = b.sorteo /\ a.premios = b.premios

\* the latest run before run n that returned, 0 if there is none
PrevCompleted(n) ==
    LET done == {m \in 1..(n - 1) : hist[m].returned}
    IN IF done = {} THEN 0 ELSE CHOOSE m \in done : \A k \in done : k <= m

====
